---- MODULE Spec2Model ----
(***************************************************************************)
(* Ascon AEAD (ascon.py): ascon_encrypt / ascon_decrypt and their building *)
(* blocks, as a state machine over one call at a time.  A call advances by *)
(* phase, and inside the block loops by iteration; a caller seals, and     *)
(* opens what was sealed (as it is, or tampered with) or other bytes.      *)
(*                                                                         *)
(* A Python integer is modelled as the set of the positions of its 1 bits  *)
(* (bit 0 is the least significant), so XOR, AND, shifts and rotations are *)
(* exact for integers of any size.  A bytes object is a sequence of        *)
(* numbers in 0..255.                                                      *)
(***************************************************************************)
EXTENDS Integers, Sequences, FiniteSets, TLC

\* ------------------------------------------------------------------------
\* Python integer operators on bit sets
\* ------------------------------------------------------------------------

\* a ^ b
XOR(a, b) == {i \in a \cup b : ~(i \in a /\ i \in b)}

\* a & b
AND(a, b) == {i \in a : i \in b}

\* a | b
OR(a, b) == {i \in a \cup b : TRUE}

\* a >> r
SHR(a, r) == {i - r : i \in {j \in a : j >= r}}

\* a << r
SHL(a, r) == {i + r : i \in a}

\* the integer literal n (0 <= n < 2^16) as a bit set
IntLit(n) == {i \in 0..15 : (n \div (2^i)) % 2 = 1}

\* 0xFFFFFFFFFFFFFFFF
MASK64 == 0..63

\* (1 << r) - 1
LowBits(r) == 0..(r - 1)

\* rotr(val, r): (val >> r) | ((val & (1 << r)-1) << (64-r))
rotr(val, r) == OR(SHR(val, r), SHL(AND(val, LowBits(r)), 64 - r))

\* ------------------------------------------------------------------------
\* bytes helpers
\* ------------------------------------------------------------------------

Min(a, b) == IF a < b THEN a ELSE b
Max(a, b) == IF a > b THEN a ELSE b

\* Python index normalisation of a slice bound on a sequence of length n
SliceIdx(i, n) == IF i < 0 THEN Max(n + i, 0) ELSE Min(i, n)

\* s[lo:hi]
Slice(s, lo, hi) == SubSeq(s, SliceIdx(lo, Len(s)) + 1, SliceIdx(hi, Len(s)))

\* s[lo:]
SliceFrom(s, lo) == SubSeq(s, SliceIdx(lo, Len(s)) + 1, Len(s))

\* zero_bytes(n): n * b"\x00" (empty when n <= 0)
zero_bytes(n) == IF n <= 0 THEN <<>> ELSE [i \in 1..n |-> 0]

\* n * [0] as used in list arithmetic (empty when n <= 0)
Zeros(n) == IF n <= 0 THEN <<>> ELSE [i \in 1..n |-> 0]

\* bytes_to_int(bytes): big-endian value of a byte string of any length
bytes_to_int(bytes) ==
    UNION {SHL(IntLit(bytes[i + 1]), (Len(bytes) - 1 - i) * 8) : i \in 0..(Len(bytes) - 1)}

\* (integer >> sh) % 256
ByteAt(integer, sh) ==
    LET bit(j) == IF (sh + j) \in integer THEN 2^j ELSE 0
    IN bit(0) + bit(1) + bit(2) + bit(3) + bit(4) + bit(5) + bit(6) + bit(7)

\* int_to_bytes(integer, nbytes)
int_to_bytes(integer, nbytes) ==
    [i \in 1..nbytes |-> ByteAt(integer, (nbytes - i) * 8)]

\* bytes_to_state(bytes): five words from the first 40 bytes (slices clamp)
bytes_to_state(bytes) ==
    [w \in 0..4 |-> bytes_to_int(Slice(bytes, 8 * w, 8 * (w + 1)))]

\* ------------------------------------------------------------------------
\* Ascon permutation
\* ------------------------------------------------------------------------

\* round constant 0xf0 - r*0x10 + r*0x1
RoundConst(r) == IntLit(240 - r * 16 + r)

\* one round of ascon_permutation, round index r
Round(S, r) ==
    LET \* --- add round constants ---
        c2 == XOR(S[2], RoundConst(r))
        \* --- substitution layer ---
        a0 == XOR(S[0], S[4])
        a4 == XOR(S[4], S[3])
        a2 == XOR(c2, S[1])
        A  == [i \in 0..4 |-> CASE i = 0 -> a0 [] i = 1 -> S[1] [] i = 2 -> a2
                                [] i = 3 -> S[3] [] i = 4 -> a4]
        T  == [i \in 0..4 |-> AND(XOR(A[i], MASK64), A[(i + 1) % 5])]
        B  == [i \in 0..4 |-> XOR(A[i], T[(i + 1) % 5])]
        b1 == XOR(B[1], B[0])
        b0 == XOR(B[0], B[4])
        b3 == XOR(B[3], B[2])
        b2 == XOR(B[2], MASK64)
        \* --- linear diffusion layer ---
        d0 == XOR(b0, XOR(rotr(b0, 19), rotr(b0, 28)))
        d1 == XOR(b1, XOR(rotr(b1, 61), rotr(b1, 39)))
        d2 == XOR(b2, XOR(rotr(b2, 1), rotr(b2, 6)))
        d3 == XOR(b3, XOR(rotr(b3, 10), rotr(b3, 17)))
        d4 == XOR(B[4], XOR(rotr(B[4], 7), rotr(B[4], 41)))
    IN  <<d0, d1, d2, d3, d4>>

\* state as a function on 0..4 from a 5-tuple
ToState(t) == [i \in 0..4 |-> t[i + 1]]

\* the loop "for r in range(12-rounds, 12)" from round r on; S stays a list of
\* five words, each round being finished before the next one starts
RECURSIVE PermFrom(_, _)
PermFrom(S, r) ==
    IF r >= 12
    THEN S
    ELSE LET n == Round(S, r)
         IN  IF Len(n) = 5 THEN PermFrom(ToState(n), r + 1) ELSE S

\* ascon_permutation(S, rounds): rounds 12-rounds .. 11
ascon_permutation(S, rounds) == PermFrom(S, 12 - rounds)

\* ------------------------------------------------------------------------
\* Parameters fixed by ascon_encrypt / ascon_decrypt
\* ------------------------------------------------------------------------

\* k = 128 in ascon_encrypt
k_encrypt == 128
\* a = 12 rounds
a == 12
\* b = 6 rounds
b == 6
\* rate = 8 bytes
rate == 8
\* length of the tag split off by ciphertext[:-16] / ciphertext[-16:]
TagLen == 16

\* S = [0, 0, 0, 0, 0]
FreshState == [i \in 0..4 |-> {}]

\* ------------------------------------------------------------------------
\* Building blocks, one operator per function or loop body
\* ------------------------------------------------------------------------

\* to_bytes([k, rate * 8, a, b] + (20-len(key))*[0]) + key + nonce
iv_zero_key_nonce(k, key, nonce) ==
    <<k, rate * 8, a, b>> \o Zeros(20 - Len(key)) \o key \o nonce

\* to_bytes raises ValueError when an element is outside range(0, 256)
ToBytesFails(k) == k > 255 \/ rate * 8 > 255

\* ascon_initialize(S, k, rate, a, b, key, nonce): the state it leaves in S
ascon_initialize(k, key, nonce) ==
    LET P == ascon_permutation(bytes_to_state(iv_zero_key_nonce(k, key, nonce)), a)
        zero_key == bytes_to_state(zero_bytes(40 - Len(key)) \o key)
    IN  [i \in 0..4 |-> XOR(P[i], zero_key[i])]

\* a_padded in ascon_process_associated_data (only built when len > 0)
a_padded(associateddata) ==
    LET a_zeros == rate - (Len(associateddata) % rate) - 1
    IN  associateddata \o <<128>> \o Zeros(a_zeros)

\* body of the absorption loop: S[0] ^= block; ascon_permutation(S, b)
AbsorbBlock(S, padded, block) ==
    ascon_permutation(
        [S EXCEPT ![0] = XOR(S[0], bytes_to_int(Slice(padded, block, block + 8)))], b)

\* faulty variant of DomainSeparate: the marker is left out
DomainSeparate_none(S) == S

\* S[4] ^= 1
DomainSeparate(S) == [S EXCEPT ![4] = XOR(S[4], IntLit(1))]

\* faulty variant of p_padded: a plaintext that fills whole blocks gets no padding block
p_padded_exact(plaintext) ==
    IF Len(plaintext) % rate = 0
    THEN plaintext
    ELSE plaintext \o <<128>> \o Zeros(rate - (Len(plaintext) % rate) - 1)

\* p_padded in ascon_process_plaintext
p_padded(plaintext) ==
    LET p_lastlen == Len(plaintext) % rate
    IN  plaintext \o <<128>> \o Zeros(rate - p_lastlen - 1)

\* body of the "first t-1 blocks" loop of ascon_process_plaintext
PlainBlock(S, padded, block) ==
    LET S0 == XOR(S[0], bytes_to_int(Slice(padded, block, block + 8)))
    IN  [S   |-> ascon_permutation([S EXCEPT ![0] = S0], b),
         out |-> int_to_bytes(S0, 8)]

\* faulty variant of PlainLast: the whole last block is emitted
PlainLast_whole(S, plaintext) ==
    LET padded == p_padded(plaintext)
        block == Len(padded) - rate
        S0 == XOR(S[0], bytes_to_int(Slice(padded, block, block + 8)))
    IN  [S   |-> [S EXCEPT ![0] = S0],
         out |-> int_to_bytes(S0, 8)]

\* "last block t" of ascon_process_plaintext
PlainLast(S, plaintext) ==
    LET p_lastlen == Len(plaintext) % rate
        padded == p_padded(plaintext)
        block == Len(padded) - rate
        S0 == XOR(S[0], bytes_to_int(Slice(padded, block, block + 8)))
    IN  [S   |-> [S EXCEPT ![0] = S0],
         out |-> Slice(int_to_bytes(S0, 8), 0, p_lastlen)]

\* c_padded in ascon_process_ciphertext
c_padded(ciphertext) ==
    ciphertext \o zero_bytes(rate - (Len(ciphertext) % rate))

\* body of the "first t-1 blocks" loop of ascon_process_ciphertext
CipherBlock(S, padded, block) ==
    IF rate = 8
    THEN LET Ci == bytes_to_int(Slice(padded, block, block + 8))
         IN  [S   |-> ascon_permutation([S EXCEPT ![0] = Ci], b),
              out |-> int_to_bytes(XOR(S[0], Ci), 8)]
    ELSE LET Ci0 == bytes_to_int(Slice(padded, block, block + 8))
             Ci1 == bytes_to_int(Slice(padded, block + 8, block + 16))
         IN  [S   |-> ascon_permutation([S EXCEPT ![0] = Ci0, ![1] = Ci1], b),
              out |-> int_to_bytes(XOR(S[0], Ci0), 8) \o int_to_bytes(XOR(S[1], Ci1), 8)]

\* c_padding1 = (0x80 << (8-n-1)*8)
c_padding1(n) == SHL(IntLit(128), (8 - n - 1) * 8)

\* faulty variant of c_mask: the shift counts bits where bytes are meant
c_mask_bits(n) == SHR(MASK64, n)

\* c_mask = (0xFFFFFFFFFFFFFFFF >> (n*8))
c_mask(n) == SHR(MASK64, n * 8)

\* "last block t" of ascon_process_ciphertext
CipherLast(S, ciphertext) ==
    LET c_lastlen == Len(ciphertext) % rate
        padded == c_padded(ciphertext)
        block == Len(padded) - rate
    IN  IF rate = 8
        THEN LET Ci == bytes_to_int(Slice(padded, block, block + 8))
             IN  [S   |-> [S EXCEPT ![0] =
                              XOR(XOR(Ci, AND(S[0], c_mask(c_lastlen))), c_padding1(c_lastlen))],
                  out |-> Slice(int_to_bytes(XOR(Ci, S[0]), 8), 0, c_lastlen)]
        ELSE LET c_lastlen_word == c_lastlen % 8
                 Ci0 == bytes_to_int(Slice(padded, block, block + 8))
                 Ci1 == bytes_to_int(Slice(padded, block + 8, block + 16))
                 pt  == Slice(int_to_bytes(XOR(S[0], Ci0), 8)
                              \o int_to_bytes(XOR(S[1], Ci1), 8), 0, c_lastlen)
             IN  IF c_lastlen < 8
                 THEN [S   |-> [S EXCEPT ![0] = XOR(XOR(Ci0, AND(S[0], c_mask(c_lastlen_word))),
                                                    c_padding1(c_lastlen_word))],
                       out |-> pt]
                 ELSE [S   |-> [S EXCEPT ![0] = Ci0,
                                         ![1] = XOR(XOR(Ci1, AND(S[1], c_mask(c_lastlen_word))),
                                                    c_padding1(c_lastlen_word))],
                       out |-> pt]

\* the "first t-1 blocks" loop of ascon_process_ciphertext from `block` on
RECURSIVE CipherLoop(_, _, _, _)
CipherLoop(S, padded, block, plaintext) ==
    IF block < Len(padded) - rate
    THEN LET r == CipherBlock(S, padded, block)
         IN  CipherLoop(r.S, padded, block + rate, plaintext \o r.out)
    ELSE [S |-> S, out |-> plaintext]

\* ascon_process_ciphertext(S, b, rate, ciphertext): the plaintext and the state left
ascon_process_ciphertext(S, ciphertext) ==
    LET first == CipherLoop(S, c_padded(ciphertext), 0, <<>>)
        last  == CipherLast(first.S, ciphertext)
    IN  [S |-> last.S, out |-> first.out \o last.out]

\* faulty variant of KeyLenOk: only too short keys are refused
KeyLenOk_min(key) == Len(key) >= 16

\* assert(len(key) in [16, 20])
KeyLenOk(key) == Len(key) \in {16, 20}

\* ascon_finalize(S, rate, a, key) past its assertion: the state and the tag
ascon_finalize(S, key) ==
    LET r8 == rate \div 8
        S1 == [S EXCEPT ![r8 + 0] = XOR(S[r8 + 0], bytes_to_int(Slice(key, 0, 8))),
                        ![r8 + 1] = XOR(S[r8 + 1], bytes_to_int(Slice(key, 8, 16))),
                        ![r8 + 2] = XOR(S[r8 + 2], bytes_to_int(SliceFrom(key, 16)))]
        P  == ascon_permutation(S1, a)
        S3 == XOR(P[3], bytes_to_int(Slice(key, -16, -8)))
        S4 == XOR(P[4], bytes_to_int(SliceFrom(key, -8)))
    IN  [S   |-> [P EXCEPT ![3] = S3, ![4] = S4],
         tag |-> int_to_bytes(S3, 8) \o int_to_bytes(S4, 8)]

\* faulty variant of TagMatches: only the first half of the tag is compared
TagMatches_half(tag, ciphertext) == Slice(tag, 0, 8) = Slice(ciphertext, -TagLen, -8)

\* tag == ciphertext[-16:]
TagMatches(tag, ciphertext) == tag = SliceFrom(ciphertext, -TagLen)

\* ------------------------------------------------------------------------
\* Inputs offered to the two entry points
\* ------------------------------------------------------------------------

\* the byte string seed, seed+1, ... of length n
Pattern(n, seed) == [i \in 1..n |-> (seed + i - 1) % 256]

NumKeys == 4
NumNonces == 2
NumADs == 3
NumPTs == 4
NumFlips == 3

KeyLens   == <<16, 20, 32, 15, 21>>
NonceLens == <<16, 15, 17>>
ADLens    == <<0, 8, 3, 9>>
PTLens    == <<0, 8, 3, 16, 9>>
FlipBits  == <<0, 127, 64, 63>>

Take(list, n) == {list[i] : i \in 1..Min(n, Len(list))}

Keys   == {Pattern(n, 0) : n \in Take(KeyLens, NumKeys)}
Nonces == {Pattern(n, 16) : n \in Take(NonceLens, NumNonces)}
ADs    == {Pattern(n, 65) : n \in Take(ADLens, NumADs)}
PTs    == {Pattern(n, 97) : n \in Take(PTLens, NumPTs)}

\* bytes with bit `bit` of the trailing 16 bytes flipped (bit 0 = last bit)
FlipTagBit(bytes, bit) ==
    LET pos == Len(bytes) - (bit \div 8)
        m   == 2^(bit % 8)
        old == bytes[pos]
    IN  [bytes EXCEPT ![pos] = IF (old \div m) % 2 = 1 THEN old - m ELSE old + m]

VARIABLES
    pc,              \* where the current call stands
    op,              \* "encrypt" or "decrypt"
    key, associateddata, nonce,
    input,           \* plaintext (encrypt) or ciphertext with tag (decrypt)
    k,               \* key size in bits as the entry point computes it
    S,               \* the five-word state of the call
    block,           \* loop variable of the running block loop
    out,             \* ciphertext / plaintext built so far
    tag,             \* tag computed by ascon_finalize
    result,          \* what the call returned or raised
    sealed,          \* the caller's copy of the last ascon_encrypt call and its output
    trace,           \* phases completed by the current call, in order, each with
                     \* the number of ascon_permutation calls it made
    perms,           \* ascon_permutation calls made so far by the running phase
    Spre             \* S when the running phase was entered

vars == <<pc, op, key, associateddata, nonce, input, k, S, block, out, tag,
          result, sealed, trace, perms, Spre>>

Pending == [kind |-> "pending", val |-> <<>>]
Raised(e) == [kind |-> e, val |-> <<>>]
Returned(bytes) == [kind |-> "bytes", val |-> bytes]
ReturnedNone == [kind |-> "None", val |-> <<>>]

NoSealed == [valid |-> FALSE, key |-> <<>>, associateddata |-> <<>>,
             nonce |-> <<>>, plaintext |-> <<>>, out |-> <<>>]

Init ==
    /\ pc = "idle"
    /\ op = "none"
    /\ key = <<>> /\ associateddata = <<>> /\ nonce = <<>> /\ input = <<>>
    /\ k = 0
    /\ S = FreshState
    /\ block = 0
    /\ out = <<>>
    /\ tag = <<>>
    /\ result = Pending
    /\ sealed = NoSealed
    /\ trace = <<>>
    /\ perms = 0
    /\ Spre = FreshState

Phase(name, n) == [phase |-> name, perms |-> n]

\* line 17 (ascon_encrypt) / line 63 (ascon_decrypt): the call after absorption
AfterAbsorb(o) == IF o = "encrypt" THEN "process_plaintext" ELSE "process_ciphertext"

\* faulty variant of AfterFinalize: ascon_decrypt returns without comparing
AfterFinalize_skip(o) == "return"

\* line 19 (ascon_encrypt) / line 66 (ascon_decrypt): the statement after ascon_finalize
AfterFinalize(o) == IF o = "encrypt" THEN "return" ELSE "compare"

\* the message the processing phase works on
Message == IF op = "decrypt" THEN Slice(input, 0, -TagLen) ELSE input

\* ascon_encrypt entered: lines 9-13 (the caller's previous sealed output is
\* replaced when this call returns)
CallEncrypt ==
    /\ pc = "idle"
    /\ \E ky \in Keys, ad \in ADs, nc \in Nonces, pt \in PTs :
          /\ key' = ky /\ associateddata' = ad /\ nonce' = nc /\ input' = pt
    /\ op' = "encrypt"
    /\ k' = k_encrypt
    /\ S' = FreshState
    /\ pc' = "initialize"
    /\ block' = 0 /\ out' = <<>> /\ tag' = <<>> /\ result' = Pending
    /\ sealed' = NoSealed
    /\ trace' = <<>> /\ perms' = 0 /\ Spre' = FreshState

\* <<key, associateddata, nonce, ciphertext>> a caller hands to ascon_decrypt:
\* the last sealed output with the inputs it was sealed under, the same with one
\* bit of its tag flipped, the same under other associated data, and byte
\* strings that no call produced
DecryptInputs ==
    (Keys \X ADs \X Nonces \X {Zeros(TagLen), Zeros(TagLen - 1)})
    \cup (IF sealed.valid
          THEN {<<sealed.key, sealed.associateddata, sealed.nonce, sealed.out>>}
               \cup {<<sealed.key, sealed.associateddata, sealed.nonce,
                       FlipTagBit(sealed.out, f)>> : f \in Take(FlipBits, NumFlips)}
               \cup {<<sealed.key, ad, sealed.nonce, sealed.out>> : ad \in ADs}
          ELSE {})

\* ascon_decrypt entered: lines 54-59 (a caller that turns to byte strings no call
\* produced no longer holds a sealed output)
CallDecrypt ==
    /\ pc = "idle"
    /\ \E in \in DecryptInputs :
          /\ key' = in[1] /\ associateddata' = in[2] /\ nonce' = in[3] /\ input' = in[4]
          /\ sealed' = IF <<in[1], in[2], in[3]>> \in Keys \X ADs \X Nonces
                          /\ in[4] \in {Zeros(TagLen), Zeros(TagLen - 1)}
                       THEN NoSealed ELSE sealed
    /\ op' = "decrypt"
    /\ k' = Len(key') * 8
    /\ S' = FreshState
    /\ IF Len(input') >= 16
       THEN pc' = "initialize" /\ result' = Pending
       ELSE pc' = "done" /\ result' = Raised("AssertionError")
    /\ block' = 0 /\ out' = <<>> /\ tag' = <<>>
    /\ trace' = <<>> /\ perms' = 0 /\ Spre' = FreshState

\* ascon_initialize
Initialize ==
    /\ pc = "initialize"
    /\ IF ToBytesFails(k)
       THEN /\ pc' = "done"
            /\ result' = Raised("ValueError")
            /\ UNCHANGED <<S, trace, perms, Spre>>
       ELSE /\ S' = ascon_initialize(k, key, nonce)
            /\ pc' = "associated_data"
            /\ trace' = Append(trace, Phase("Init", 1))
            /\ perms' = 0
            /\ Spre' = S'
            /\ UNCHANGED result
    /\ block' = 0
    /\ UNCHANGED <<op, key, associateddata, nonce, input, k, out, tag, sealed>>

\* one iteration of the loop of ascon_process_associated_data
AbsorbStep ==
    /\ pc = "associated_data"
    /\ Len(associateddata) > 0
    /\ block < Len(a_padded(associateddata))
    /\ S' = AbsorbBlock(S, a_padded(associateddata), block)
    /\ block' = block + rate
    /\ perms' = perms + 1
    /\ UNCHANGED <<pc, op, key, associateddata, nonce, input, k, out, tag, result,
                   sealed, trace, Spre>>

\* the loop (if any) is over: S[4] ^= 1, and the message phase is entered
AbsorbFinish ==
    /\ pc = "associated_data"
    /\ Len(associateddata) > 0 => block >= Len(a_padded(associateddata))
    /\ S' = DomainSeparate(S)
    /\ pc' = AfterAbsorb(op)
    /\ trace' = Append(trace, Phase("AbsorbAD", perms))
    /\ block' = 0
    /\ perms' = 0
    /\ Spre' = S'
    /\ UNCHANGED <<op, key, associateddata, nonce, input, k, out, tag, result, sealed>>

\* one iteration of the "first t-1 blocks" loop of ascon_process_plaintext
PlaintextStep ==
    /\ pc = "process_plaintext"
    /\ block < Len(p_padded(Message)) - rate
    /\ LET r == PlainBlock(S, p_padded(Message), block)
       IN  S' = r.S /\ out' = out \o r.out
    /\ block' = block + rate
    /\ perms' = perms + 1
    /\ UNCHANGED <<pc, op, key, associateddata, nonce, input, k, tag, result,
                   sealed, trace, Spre>>

\* last block of ascon_process_plaintext and its return
PlaintextLast ==
    /\ pc = "process_plaintext"
    /\ block >= Len(p_padded(Message)) - rate
    /\ LET r == PlainLast(S, Message)
       IN  S' = r.S /\ out' = out \o r.out
    /\ block' = Len(p_padded(Message)) - rate
    /\ pc' = "finalize"
    /\ trace' = Append(trace, Phase("Encrypt", perms))
    /\ UNCHANGED <<op, key, associateddata, nonce, input, k, tag, result,
                   sealed, perms, Spre>>

\* one iteration of the "first t-1 blocks" loop of ascon_process_ciphertext
CiphertextStep ==
    /\ pc = "process_ciphertext"
    /\ block < Len(c_padded(Message)) - rate
    /\ LET r == CipherBlock(S, c_padded(Message), block)
       IN  S' = r.S /\ out' = out \o r.out
    /\ block' = block + rate
    /\ perms' = perms + 1
    /\ UNCHANGED <<pc, op, key, associateddata, nonce, input, k, tag, result,
                   sealed, trace, Spre>>

\* last block of ascon_process_ciphertext and its return
CiphertextLast ==
    /\ pc = "process_ciphertext"
    /\ block >= Len(c_padded(Message)) - rate
    /\ LET r == CipherLast(S, Message)
       IN  S' = r.S /\ out' = out \o r.out
    /\ block' = Len(c_padded(Message)) - rate
    /\ pc' = "finalize"
    /\ trace' = Append(trace, Phase("Decrypt", perms))
    /\ UNCHANGED <<op, key, associateddata, nonce, input, k, tag, result,
                   sealed, perms, Spre>>

\* ascon_finalize
Finalize ==
    /\ pc = "finalize"
    /\ IF KeyLenOk(key)
       THEN /\ LET r == ascon_finalize(S, key)
               IN  S' = r.S /\ tag' = r.tag
            /\ pc' = AfterFinalize(op)
            /\ trace' = Append(trace, Phase("Finalize", 1))
            /\ UNCHANGED result
       ELSE /\ pc' = "done"
            /\ result' = Raised("AssertionError")
            /\ UNCHANGED <<S, tag, trace>>
    /\ UNCHANGED <<op, key, associateddata, nonce, input, k, block, out,
                   sealed, perms, Spre>>

\* return ciphertext + tag
EncryptReturn ==
    /\ pc = "return"
    /\ result' = Returned(out \o tag)
    /\ sealed' = [valid |-> TRUE, key |-> key, associateddata |-> associateddata,
                  nonce |-> nonce, plaintext |-> input, out |-> out \o tag]
    /\ pc' = "done"
    /\ UNCHANGED <<op, key, associateddata, nonce, input, k, S, block, out, tag,
                   trace, perms, Spre>>

\* faulty variant of DecryptResult: the plaintext is returned whatever the tags are
DecryptResult_leak(computed, ciphertext, plaintext) == Returned(plaintext)

\* what ascon_decrypt returns after the comparison on line 66
DecryptResult(computed, ciphertext, plaintext) ==
    IF TagMatches(computed, ciphertext) THEN Returned(plaintext) ELSE ReturnedNone

\* if tag == ciphertext[-16:]: return plaintext / else: return None
TagCompare ==
    /\ pc = "compare"
    /\ result' = DecryptResult(tag, input, out)
    /\ trace' = Append(trace, Phase("TagCompare", 0))
    /\ pc' = "done"
    /\ UNCHANGED <<op, key, associateddata, nonce, input, k, S, block, out, tag,
                   sealed, perms, Spre>>

\* the call is over: its locals are gone, the caller keeps what it was handed
Discard ==
    /\ pc = "done"
    /\ pc' = "idle"
    /\ op' = "none"
    /\ key' = <<>> /\ associateddata' = <<>> /\ nonce' = <<>> /\ input' = <<>>
    /\ k' = 0
    /\ S' = FreshState
    /\ block' = 0 /\ out' = <<>> /\ tag' = <<>> /\ result' = Pending
    /\ trace' = <<>> /\ perms' = 0 /\ Spre' = FreshState
    /\ UNCHANGED sealed

Next ==
    \/ CallEncrypt
    \/ CallDecrypt
    \/ Initialize
    \/ AbsorbStep
    \/ AbsorbFinish
    \/ PlaintextStep
    \/ PlaintextLast
    \/ CiphertextStep
    \/ CiphertextLast
    \/ Finalize
    \/ EncryptReturn
    \/ TagCompare
    \/ Discard

Spec == Init /\ [][Next]_vars

\* ------------------------------------------------------------------------
\* Properties
\* ------------------------------------------------------------------------

Finished == pc = "done" /\ op \in {"encrypt", "decrypt"}
Aborted == result.kind \in {"AssertionError", "ValueError"}

\* the running ascon_decrypt call is given the last sealed output under the inputs
\* it was sealed with
OpensSealed ==
    /\ op = "decrypt"
    /\ sealed.valid
    /\ key = sealed.key /\ associateddata = sealed.associateddata /\ nonce = sealed.nonce

\* C1: Round-trip.  For every key of 16 or 20 bytes, every 16-byte nonce, every
\* associated data and every plaintext, ascon_decrypt(key, ad, nonce,
\* ascon_encrypt(key, ad, nonce, pt)) returns exactly pt, and not None.
C1_RoundTrip ==
    (Finished /\ OpensSealed /\ input = sealed.out
        /\ Len(key) \in {16, 20} /\ Len(nonce) = 16)
    => result = Returned(sealed.plaintext)

\* The round trip of C1 restricted to 16-byte keys.
RoundTrip16 ==
    (Finished /\ OpensSealed /\ input = sealed.out /\ Len(key) = 16)
    => result = Returned(sealed.plaintext)

\* C2: Authentication failure hides the plaintext.  A finished ascon_decrypt call
\* that reached the tag comparison returns None, without any plaintext byte, when
\* the computed tag differs from the trailing 16 bytes of its input, returns the
\* recovered plaintext when they are equal, and raises nothing in either case.
C2_FailureHidesPlaintext ==
    (Finished /\ op = "decrypt" /\ ~Aborted)
    => /\ Len(tag) = 16
       /\ IF tag = SubSeq(input, Len(input) - 15, Len(input))
          THEN result = [kind |-> "bytes", val |-> out]
          ELSE result = [kind |-> "None", val |-> <<>>]

\* a tag mismatch after a non-empty plaintext was recovered
C2_Witness ==
    /\ Finished /\ op = "decrypt"
    /\ result.kind = "None"
    /\ Len(out) > 0
    /\ tag # SubSeq(input, Len(input) - 15, Len(input))

\* C3: Nonce-length precondition.  Every ascon_encrypt or ascon_decrypt call whose
\* nonce is not exactly 16 bytes long aborts and produces no result.
C3_NonceLengthFailsFast ==
    (Finished /\ Len(nonce) # 16) => Aborted

\* C4 as claimed: a call whose key length is neither 16 nor 20 aborts with an
\* assertion failure.
C4_KeyLengthAsserts ==
    (Finished /\ Len(key) \notin {16, 20}) => result.kind = "AssertionError"

\* C4 (amended): a call whose key length is neither 16 nor 20 never returns; it
\* aborts with an AssertionError, except that ascon_decrypt given at least 16
\* bytes of input and a key of 32 bytes or more aborts with the ValueError of
\* to_bytes in ascon_initialize.  With a key of 16 or 20 bytes the only
\* assertion that can fail is the input-length assertion of ascon_decrypt.
C4_KeyLengthAborts ==
    /\ (Finished /\ Len(key) \notin {16, 20})
       => /\ Aborted
          /\ result.kind = "ValueError"
             <=> (op = "decrypt" /\ Len(key) >= 32 /\ Len(input) >= 16)
    /\ (Finished /\ Len(key) \in {16, 20} /\ Aborted)
       => (result.kind = "AssertionError" /\ op = "decrypt" /\ Len(input) < 16)

\* a call with a bad key length that got as far as ascon_finalize and aborted there
C4_Witness ==
    /\ Finished
    /\ Len(key) \notin {16, 20}
    /\ result.kind = "AssertionError"
    /\ Len(trace) = 3

\* C5: Length preservation.  ascon_process_plaintext returns as many bytes as the
\* plaintext has, and ascon_encrypt returns 16 bytes more.
C5_LengthPreserved ==
    /\ (op = "encrypt" /\ pc \in {"finalize", "return", "done"}) => Len(out) = Len(input)
    /\ (Finished /\ op = "encrypt" /\ ~Aborted)
       => (result.kind = "bytes" /\ Len(result.val) = Len(input) + 16)

\* ascon_encrypt returned for a plaintext that fills whole blocks
C5_Witness ==
    /\ Finished /\ op = "encrypt"
    /\ result.kind = "bytes"
    /\ Len(input) > 0 /\ Len(input) % 8 = 0

\* the input is the last sealed output with one bit of its last 16 bytes flipped
TagBitFlipped ==
    \E f \in 0..127 : input = FlipTagBit(sealed.out, f)

\* C6: Tag tamper detection.  Flipping any single bit within the trailing 16
\* bytes of a sealed output and opening it with the same key, associated data
\* and nonce yields None; with a 16-byte key the computed tag is the one that
\* was sealed, whatever the trailing 16 bytes of the input are.
C6_TagTamperDetected ==
    (Finished /\ OpensSealed /\ TagBitFlipped)
    => /\ result = ReturnedNone
       /\ Len(key) = 16 => tag = SubSeq(sealed.out, Len(sealed.out) - 15, Len(sealed.out))

\* a tampered tag was rejected although a plaintext had been recovered
C6_Witness ==
    /\ Finished /\ OpensSealed /\ TagBitFlipped
    /\ result.kind = "None"
    /\ Len(out) > 0

\* the phases of a call, in the order the entry point runs them
ExpectedPhases(o) ==
    IF o = "encrypt"
    THEN <<"Init", "AbsorbAD", "Encrypt", "Finalize">>
    ELSE <<"Init", "AbsorbAD", "Decrypt", "Finalize", "TagCompare">>

PhaseNames == [i \in 1..Len(trace) |-> trace[i].phase]

\* the number of completed phases each position of a call stands after
PhasesBefore ==
    [initialize |-> 0, associated_data |-> 1, process_plaintext |-> 2,
     process_ciphertext |-> 2, finalize |-> 3, return |-> 4, compare |-> 4]

\* C7: Phase ordering.  A call runs Init, AbsorbAD, Encrypt or Decrypt, Finalize
\* and (ascon_decrypt only) TagCompare, each once and in this order, starting
\* from a fresh all-zero state; a call that returns has run all of them.
C7_PhaseOrder ==
    op \in {"encrypt", "decrypt"}
    => /\ Len(trace) <= Len(ExpectedPhases(op))
       /\ PhaseNames = SubSeq(ExpectedPhases(op), 1, Len(trace))
       /\ pc # "done" => Len(trace) = PhasesBefore[pc]
       /\ pc = "initialize" => S = [i \in 0..4 |-> {}]
       /\ pc = "process_plaintext" => op = "encrypt"
       /\ pc = "process_ciphertext" => op = "decrypt"
       /\ (pc = "done" /\ ~Aborted) => PhaseNames = ExpectedPhases(op)

\* an ascon_decrypt call that ran all five phases
C7_Witness ==
    /\ Finished /\ op = "decrypt"
    /\ PhaseNames = <<"Init", "AbsorbAD", "Decrypt", "Finalize", "TagCompare">>

\* C8: Empty-associated-data domain separation.  The step that leaves
\* ascon_process_associated_data XORs 1 into word 4 and changes nothing else;
\* with empty associated data it is the only step, taken on the state
\* ascon_initialize left with no permutation applied; with non-empty associated
\* data it is taken once, after the permutation of the last block, and no other
\* step of the phase happens once all blocks have been absorbed.
C8_DomainSeparation ==
    [][ /\ (pc = "associated_data" /\ pc' # "associated_data")
           => /\ S' = [S EXCEPT ![4] = (S[4] \ {0}) \cup ({0} \ S[4])]
              /\ perms = (IF Len(associateddata) = 0 THEN 0
                          ELSE Len(associateddata) \div 8 + 1)
              /\ Len(associateddata) = 0 => S = Spre
        /\ (pc = "associated_data" /\ pc' = "associated_data")
           => /\ Len(associateddata) > 0
              /\ perms < Len(associateddata) \div 8 + 1
              /\ perms' = perms + 1
      ]_vars

\* the message phase entered after empty associated data, no permutation applied
C8_Witness ==
    /\ pc \in {"process_plaintext", "process_ciphertext"}
    /\ Len(associateddata) = 0
    /\ trace[2] = [phase |-> "AbsorbAD", perms |-> 0]

\* C9: Encrypt/decrypt state symmetry at rate 8.  When ascon_process_plaintext
\* started from S on pt returned ct and left S1, ascon_process_ciphertext started
\* from the same S on ct returns pt and leaves S1.
C9_StateSymmetry ==
    (op = "encrypt" /\ pc = "finalize")
    => ascon_process_ciphertext(Spre, out) = [S |-> S, out |-> input]

\* plaintext processing finished on a plaintext that fills whole blocks
C9_Witness ==
    /\ op = "encrypt" /\ pc = "finalize"
    /\ Len(input) = 8
    /\ out # input

\* C10: Separate last block.  An input of length n is padded to n \div 8 + 1
\* blocks; plaintext and ciphertext processing permute once after each block but
\* the last, n \div 8 times in all; absorbing non-empty associated data of length
\* m permutes once after every block, m \div 8 + 1 times in all.
C10_SeparateLastBlock ==
    /\ pc = "process_plaintext"
       => /\ Len(p_padded(Message)) = (Len(Message) \div 8 + 1) * 8
          /\ perms = block \div 8
    /\ pc = "process_ciphertext"
       => /\ Len(c_padded(Message)) = (Len(Message) \div 8 + 1) * 8
          /\ perms = block \div 8
    /\ (pc = "associated_data" /\ Len(associateddata) > 0)
       => /\ Len(a_padded(associateddata)) = (Len(associateddata) \div 8 + 1) * 8
          /\ perms = block \div 8
    /\ pc = "finalize"
       => /\ block = (Len(Message) \div 8) * 8
          /\ perms = Len(Message) \div 8
    /\ \A i \in 1..Len(trace) :
          /\ trace[i].phase \in {"Encrypt", "Decrypt"}
             => trace[i].perms = Len(Message) \div 8
          /\ trace[i].phase = "AbsorbAD"
             => trace[i].perms = (IF Len(associateddata) = 0 THEN 0
                                  ELSE Len(associateddata) \div 8 + 1)

\* message processing finished on exactly one full block: two blocks, one permutation
C10_Witness ==
    /\ pc = "finalize"
    /\ Len(Message) = 8
    /\ block = 8
    /\ perms = 1
    /\ Len(associateddata) = 8
    /\ trace[2].perms = 2
====
